---- MODULE Spec2Model ----
(***************************************************************************)
(* State-machine model of prepare-ptv-data (tools/prepare-ptv-data/main.go) *)
(* and of the Unzip helper of its earlier variant.                         *)
(*                                                                         *)
(* A file name is the sequence of its dot-separated segments, so that      *)
(* "stops.txt" is <<"stops", "txt">>; fmt.Sprintf("%s.txt", s) and         *)
(* strings.Split(name, ".")[0] are then computed, not assumed.             *)
(* A CSV line is the record encoding/csv parses it into (a sequence of     *)
(* fields); a file is the sequence of its lines, first line included.      *)
(***************************************************************************)
EXTENDS Naturals, Integers, Sequences, FiniteSets, TLC

\* Bounds of the model.
\* Entries (files and directories) of the unpacked tree.
MaxFiles == 2
\* Data rows (lines after the first) in the whole tree.
MaxRows == 2

----------------------------------------------------------------------------
\* Program constants

validGTFSFileNames ==
  <<"agency", "calendar_dates", "calendar", "routes", "stop_times", "stops", "trips", "shapes">>

Header ==
  [agency |-> <<"agency_id", "agency_name", "agency_url", "agency_timezone", "agency_lang">>,
   calendar_dates |-> <<"service_id", "date", "exception_type">>,
   calendar |-> <<"service_id", "monday", "tuesday", "wednesday", "thursday", "friday",
                  "saturday", "sunday", "start_date", "end_date">>,
   routes |-> <<"route_id", "agency_id", "route_short_name", "route_long_name", "route_type",
                "route_color", "route_text_color">>,
   stop_times |-> <<"trip_id", "arrival_time", "departure_time", "stop_id", "stop_sequence",
                    "stop_headsign", "pickup_type", "drop_off_type", "shape_dist_traveled">>,
   stops |-> <<"stop_id", "stop_name", "stop_lat", "stop_lon">>,
   trips |-> <<"route_id", "service_id", "trip_id", "shape_id", "trip_headsign", "direction_id">>,
   shapes |-> <<"shape_id", "shape_pt_lat", "shape_pt_lon", "shape_pt_sequence",
                "shape_dist_traveled">>]

Types == DOMAIN Header

\* var outputData = map[string][][]string{ type: {header} }
InitialOutputData == [t \in Types |-> <<Header[t]>>]

----------------------------------------------------------------------------
\* Pure functions of the program

Range(s) == {s[i] : i \in DOMAIN s}

\* fmt.Sprintf("%s.txt", str), on names as dot-separated segments
SprintfTxt(str) == <<str, "txt">>

\* strings.Split(info.Name(), ".")[0]
recordTypeOf(name) == name[1]

\* Variant: every name with the extension txt is taken for a GTFS file.
fileIsGTFSFile_AnyTxt(fileName) == Len(fileName) = 2 /\ fileName[2] = "txt"

fileIsGTFSFile(fileName) ==
  \E i \in DOMAIN validGTFSFileNames : fileName = SprintfTxt(validGTFSFileNames[i])

\* Variant: rows are compared as a whole instead of by their first field.
isGTFSRecordExisting_WholeRow(rec, targetArrays) ==
  \E i \in DOMAIN targetArrays : rec.Contents = targetArrays[i]

\* Variant: only the row appended last is compared.
isGTFSRecordExisting_LastRowOnly(rec, targetArrays) ==
  rec.Contents[1] = targetArrays[Len(targetArrays)][1]

\* The loop runs over every element of targetArrays, the header row included.
isGTFSRecordExisting(rec, targetArrays) ==
  \E i \in DOMAIN targetArrays : rec.Contents[1] = targetArrays[i][1]

\* Variant: the new row is put in front of the table.
mergeRecord_Prepend(data, rec) ==
  IF ~isGTFSRecordExisting(rec, data[rec.Type])
    THEN [data EXCEPT ![rec.Type] = <<rec.Contents>> \o data[rec.Type]]
    ELSE data

\* Variant: the new row is put right after the header row.
mergeRecord_AfterHeader(data, rec) ==
  IF ~isGTFSRecordExisting(rec, data[rec.Type])
    THEN [data EXCEPT ![rec.Type] = <<Head(@), rec.Contents>> \o Tail(@)]
    ELSE data

\* data[key] of a Go map: the nil slice for a key the map does not hold.
mapIndex(data, key) == IF key \in DOMAIN data THEN data[key] ELSE <<>>

\* data[key] = value of a Go map: the key is added when the map does not hold it.
mapAssign(data, key, value) ==
  [k \in DOMAIN data \cup {key} |-> IF k = key THEN value ELSE data[k]]

\* The body of the range loop of main.
mergeRecord(data, rec) ==
  IF ~isGTFSRecordExisting(rec, mapIndex(data, rec.Type))
    THEN mapAssign(data, rec.Type, Append(mapIndex(data, rec.Type), rec.Contents))
    ELSE data

\* A field as encoding/csv returns it for text with a quote inside an
\* unquoted field (stop"lon): the record ends there with ErrBareQuote.
BareQuoteField == "stop\"lon"

\* The record encoding/csv returns for a line: all its fields, or, for a line
\* with a bare quote, the fields before the one with the quote.
csvFields(line) ==
  LET bad == {f \in DOMAIN line : line[f] = BareQuoteField} IN
  IF bad = {} THEN line
  ELSE SubSeq(line, 1, (CHOOSE f \in bad : \A g \in bad : f <= g) - 1)

\* encoding/csv Reader.Read on the line at position i of a file, with
\* FieldsPerRecord = 0: a bare quote is a parse error; the record of the first
\* Read, whatever its error, fixes the number of fields and a later record
\* with another number of fields is ErrFieldCount.
csvRead(lines, i) ==
  IF i > Len(lines) THEN [err |-> "EOF", record |-> <<>>]
  ELSE IF csvFields(lines[i]) # lines[i]
    THEN [err |-> "ErrBareQuote", record |-> csvFields(lines[i])]
  ELSE IF Len(lines[i]) # Len(csvFields(lines[1]))
    THEN [err |-> "ErrFieldCount", record |-> lines[i]]
  ELSE [err |-> "nil", record |-> lines[i]]

----------------------------------------------------------------------------
\* Inputs: the trees the extraction can leave under ./gtfs_in

FileTypes == {"stops", "stop_times"}

\* A line with too few fields for either type.
ShortRow == <<"T1", "08:00">>

\* The lines a file of type t may hold after its first line.  For stops: two
\* rows with the same stop_id and different contents, and a repetition of the
\* header line.  For stop_times: two stops of one trip, another trip, and a
\* malformed line.
RowChoices(t) ==
  IF t = "stops"
    THEN {<<"S1", "Main St", "-37.8", "144.9">>,
          <<"S1", "Main Street", "-37.81", "144.95">>,
          <<"stop_id", "stop_name", "stop_lat", "stop_lon">>}
    ELSE {<<"T1", "08:00", "08:00", "S1", "1", "", "0", "0", "">>,
          <<"T1", "08:05", "08:05", "S2", "2", "", "0", "0", "">>,
          <<"T2", "08:00", "08:00", "S1", "1", "", "0", "0", "">>,
          ShortRow}

RECURSIVE RowSeqs(_, _)
RowSeqs(t, k) ==
  IF k = 0 THEN {<<>>}
  ELSE {Append(s, r) : s \in RowSeqs(t, k - 1), r \in RowChoices(t)}

GTFSFile(t, rows) ==
  [name |-> SprintfTxt(t), isDir |-> FALSE, readable |-> TRUE, lines |-> <<Header[t]>> \o rows]

\* Entries without data rows: a file holding its header line only, a file
\* os.Open fails on, a directory with the name of a GTFS file, another file.
OtherEntries ==
  {GTFSFile("stops", <<>>),
   [name |-> <<"stop_times", "txt">>, isDir |-> FALSE, readable |-> FALSE, lines |-> <<>>],
   [name |-> <<"stops", "txt">>, isDir |-> TRUE, readable |-> TRUE, lines |-> <<>>],
   [name |-> <<"readme", "txt">>, isDir |-> FALSE, readable |-> TRUE, lines |-> <<>>]}

\* Entries that hold k data rows.
EntriesWith(k) ==
  IF k = 0 THEN OtherEntries
  ELSE UNION {{GTFSFile(t, rows) : rows \in RowSeqs(t, k)} : t \in FileTypes}

\* Trees of exactly f entries holding at most n data rows together.
RECURSIVE TreesOf(_, _)
TreesOf(f, n) ==
  IF f = 0 THEN {<<>>}
  ELSE UNION {{<<e>> \o rest : e \in EntriesWith(k), rest \in TreesOf(f - 1, n - k)}
                : k \in 0..n}

\* Trees of at most maxFiles entries.
Trees(maxFiles) == UNION {TreesOf(f, MaxRows) : f \in 0..maxFiles}

\* A first line of a stops file with a bare quote in its last field.
BadHeader == <<"stop_id", "stop_name", "stop_lat", BareQuoteField>>

\* A stops file whose first line is BadHeader, followed by the given rows.
BadHeaderFile(rows) ==
  [name |-> <<"stops", "txt">>, isDir |-> FALSE, readable |-> TRUE, lines |-> <<BadHeader>> \o rows]

\* A first line of a stops file with two columns, and a row of that width.
NarrowHeader == <<"stop_id", "stop_name">>

NarrowRow == <<"S1", "Main St">>

\* A stops file whose first line is NarrowHeader, followed by the given rows.
NarrowHeaderFile(rows) ==
  [name |-> <<"stops", "txt">>, isDir |-> FALSE, readable |-> TRUE, lines |-> <<NarrowHeader>> \o rows]

\* Trees that start with a file whose first line is not the header of its
\* type (malformed, or of another width), alone in the file or followed by
\* one row, and go on with entries of at most one row.
BadHeaderTrees ==
  {<<b>> \o rest :
     b \in {BadHeaderFile(<<>>)} \cup {BadHeaderFile(<<r>>) : r \in RowChoices("stops")}
           \cup {NarrowHeaderFile(<<r>>) : r \in {NarrowRow} \cup RowChoices("stops")},
     rest \in UNION {TreesOf(f, 1) : f \in 0..(MaxFiles - 1)}}

----------------------------------------------------------------------------
\* Paths of Unzip.  A path is the sequence of its characters, so that
\* strings.HasPrefix is a comparison of characters and filepath.Clean and
\* filepath.Join are computed on the text (Unix separator).

Sep == "/"
DotDot == <<".", ".">>
Dot == <<".">>

\* The elements of a path between separators, empty elements dropped.
Elements(path) ==
  LET f[i \in 0..Len(path)] ==
        IF i = 0 THEN <<<<>>, <<>>>>
        ELSE LET before == f[i - 1] IN
             IF path[i] = Sep
               THEN (IF before[2] = <<>> THEN before
                     ELSE <<Append(before[1], before[2]), <<>>>>)
               ELSE <<before[1], Append(before[2], path[i])>>
      r == f[Len(path)]
  IN IF r[2] = <<>> THEN r[1] ELSE Append(r[1], r[2])

\* strings.Join(elems, "/")
RECURSIVE JoinSep(_)
JoinSep(elems) ==
  IF elems = <<>> THEN <<>>
  ELSE IF Len(elems) = 1 THEN elems[1]
  ELSE elems[1] \o <<Sep>> \o JoinSep(Tail(elems))

\* filepath.Clean
Clean(path) ==
  LET rooted == path # <<>> /\ path[1] = Sep
      elems == Elements(path)
      g[i \in 0..Len(elems)] ==
        IF i = 0 THEN <<>>
        ELSE LET st == g[i - 1]
                 c == elems[i]
             IN IF c = Dot THEN st
                ELSE IF c = DotDot
                  THEN (IF st # <<>> /\ st[Len(st)] # DotDot THEN SubSeq(st, 1, Len(st) - 1)
                        ELSE IF rooted THEN st
                        ELSE Append(st, c))
                ELSE Append(st, c)
      out == (IF rooted THEN <<Sep>> ELSE <<>>) \o JoinSep(g[Len(elems)])
  IN IF out = <<>> THEN Dot ELSE out

\* filepath.Join(dest, name): the non-empty arguments joined by a separator,
\* then cleaned; the empty string when both are empty.
Join(dest, name) ==
  IF dest = <<>> /\ name = <<>> THEN <<>>
  ELSE IF dest = <<>> THEN Clean(name)
  ELSE IF name = <<>> THEN Clean(dest)
  ELSE Clean(dest \o <<Sep>> \o name)

HasPrefix(str, prefix) ==
  Len(str) >= Len(prefix) /\ SubSeq(str, 1, Len(prefix)) = prefix

\* Variant: the separator is not added to the prefix.
IllegalFilePath_NoSeparator(fpath, dest) == ~HasPrefix(fpath, Clean(dest))

\* The ZipSlip test of Unzip.
IllegalFilePath(fpath, dest) == ~HasPrefix(fpath, Clean(dest) \o <<Sep>>)

\* The path itself and the directories above it, as cleaned paths.
UpTo(path) ==
  LET elems == Elements(path)
      root == IF path # <<>> /\ path[1] = Sep THEN <<Sep>> ELSE <<>>
  IN {root \o JoinSep(SubSeq(elems, 1, n)) : n \in 1..Len(elems)}

\* The directories above dest exist before the call; dest itself need not.
ExistingDirs(dest) == UpTo(Clean(dest)) \ {Clean(dest)}

\* os.MkdirAll(path): the directories it creates.
MkdirAll(path, dest) == UpTo(path) \ ExistingDirs(dest)

\* filepath.Dir of a cleaned path
Dir(path) ==
  LET elems == Elements(path)
      root == IF path # <<>> /\ path[1] = Sep THEN <<Sep>> ELSE <<>>
      out == root \o JoinSep(SubSeq(elems, 1, Len(elems) - 1))
  IN IF out = <<>> THEN Dot ELSE out

\* Inputs of Unzip: destinations and entry names.
\* "a", "./a", "a/ab", "."
Dests ==
  {<<"a">>, <<".", "/", "a">>, <<"a", "/", "a", "b">>, <<".">>}

\* "a", "ab", "a/a", ".", "a/..", "..", "../a", "../ab", "../..", "/.."
EntryNames ==
  {<<"a">>, <<"a", "b">>, <<"a", "/", "a">>,
   <<".">>, <<"a", "/", ".", ".">>, <<".", ".">>, <<".", ".", "/", "a">>,
   <<".", ".", "/", "a", "b">>, <<".", ".", "/", ".", ".">>, <<"/", ".", ".">>}

\* Entries in one archive.
MaxEntries == 2

RECURSIVE Archives(_)
Archives(n) ==
  IF n = 0 THEN {<<>>}
  ELSE Archives(n - 1) \cup
       {Append(a, e) : a \in {x \in Archives(n - 1) : Len(x) = n - 1}, e \in EntryNames}

----------------------------------------------------------------------------
\* Directory trees and archives of extractPTVData.  A name is the sequence of
\* its dot-separated segments, a path the sequence of its names, so that
\* strings.Replace(path, ".zip", "", 1) is computed on the text of the path.
\* A node is a directory, a file, or a zip file with the entries it holds.

looseInputFiles == <<<<"gtfs_in">>>>
innerZipFileName == <<"google_transit", "zip">>

\* The names of the model in byte order, the order in which filepath.Walk
\* visits the entries of one directory:
\* "1" < "a.zip" < "google_transit" < "google_transit.zip" < "stops.txt"
NameOrder ==
  <<<<"1">>, <<"a", "zip">>, <<"google_transit">>, <<"google_transit", "zip">>, <<"stops", "txt">>>>

\* info.Name(): the last element of the path
BaseName(path) == path[Len(path)]

\* The text ".zip" starts at segment k of a name.
DotZipAt(name, k) == k \in 2..Len(name) /\ name[k] = "zip"

HasDotZip(name) == \E k \in DOMAIN name : DotZipAt(name, k)

\* A name without the first ".zip" in it.
StripFirstDotZip(name) ==
  LET k == CHOOSE i \in DOMAIN name : DotZipAt(name, i) /\ \A j \in 1..(i - 1) : ~DotZipAt(name, j)
  IN SubSeq(name, 1, k - 1) \o SubSeq(name, k + 1, Len(name))

\* strings.Replace(path, ".zip", "", 1): the first occurrence in the whole
\* path is removed, in whichever element of the path it is.
ReplaceDotZip(path) ==
  IF \A n \in DOMAIN path : ~HasDotZip(path[n]) THEN path
  ELSE LET n == CHOOSE i \in DOMAIN path :
                  HasDotZip(path[i]) /\ \A j \in 1..(i - 1) : ~HasDotZip(path[j])
       IN [path EXCEPT ![n] = StripFirstDotZip(path[n])]

Node(path, kind, inner) == [path |-> path, kind |-> kind, inner |-> inner]

\* The directories on the way to a path, the path excluded.
DirsAbove(path) == {Node(SubSeq(path, 1, n), "dir", {}) : n \in 1..(Len(path) - 1)}

\* archiver.Unarchive(src, dest): the nodes it creates for the entries of an
\* archive, with dest and the directories on the way to each entry.
Unarchived(dest, entries) ==
  {Node(dest \o e.path, e.kind, e.inner) : e \in entries}
    \cup {Node(dest, "dir", {})}
    \cup DirsAbove(dest)
    \cup UNION {DirsAbove(dest \o e.path) : e \in entries}

\* Unarchive does not write over a file, nor make a directory where a file is.
CanUnarchive(fs, new) ==
  \A n \in new : \A m \in fs : m.path = n.path => (m.kind = "dir" /\ n.kind = "dir")

\* The names in directory path, as filepath.Walk reads and sorts them.
ReadDirNames(fs, path) ==
  SelectSeq(NameOrder, LAMBDA name : \E m \in fs : m.path = Append(path, name))

\* Inputs: archives with marker archives nested in them.
MaxNest == 2

\* An archive without inner archive.
Leaf == {Node(<<<<"stops", "txt">>>>, "file", {})}

\* Where an archive holds its inner archive: at its top, in directory "1", or
\* in a directory named "a.zip".
Places == {<<>>, <<<<"1">>>>, <<<<"a", "zip">>>>}

Wrap(place, inner) ==
  {Node(<<<<"stops", "txt">>>>, "file", {}), Node(Append(place, innerZipFileName), "zip", inner)}

RECURSIVE Nested(_)
Nested(d) ==
  IF d = 0 THEN {Leaf}
  ELSE {Wrap(place, inner) : place \in Places, inner \in Nested(d - 1)}

RootArchives == UNION {Nested(d) : d \in 0..MaxNest}

----------------------------------------------------------------------------
VARIABLES
  tree,        \* the unpacked tree under looseInputFiles, in walk order
  pcMain,      \* position of main
  walkIdx,     \* next entry filepath.Walk visits
  wg,          \* sync.WaitGroup counter
  prod,        \* one goroutine per dispatched file
  closerPc,    \* the goroutine of lines 187-190
  chanClosed,  \* close(c) has run
  outputData,  \* the table map of main
  received,    \* history: <<file, line>> of every record the range loop received
  outFiles,    \* content of the files under consolidatedOutputFiles
  bundle,      \* content of consolidatedOutputFiles + ".zip"
  cleaned,     \* cleanup has run
  run,         \* number of the current run of main on the same input archive
  prev,        \* the tables the previous run ended with
  uz,          \* a call of Unzip(src, dest): its inputs, locals and effects
  origin,      \* history: per type, <<file, line>> of every record the loop appended
  openFiles,   \* the producers whose *os.File is open in the process
  stale,       \* entries of tree left under looseInputFiles by an earlier, failed run
  ex           \* a call of extractPTVData: the directory tree and the walk over it

vars == <<tree, pcMain, walkIdx, wg, prod, closerPc, chanClosed, outputData, received,
          outFiles, bundle, cleaned, run, prev, uz, origin, openFiles, stale, ex>>

NoRec == [Path |-> 0, Type |-> "", Contents |-> <<>>]
NoFile == <<>>
NoBundle == <<>>

Idle == [pc |-> "none", next |-> 0, rec |-> NoRec]

\* No call of Unzip is in progress.
UzIdle == [pc |-> "none", dest |-> <<>>, archive |-> <<>>, i |-> 0, filenames |-> <<>>,
           made |-> <<>>, err |-> "nil"]

\* No call of extractPTVData is in progress.
ExIdle == [pc |-> "none", archive |-> {}, fs |-> {}, todo |-> <<>>, calls |-> <<>>, err |-> "nil"]

Init ==
  /\ tree \in Trees(MaxFiles)
  /\ pcMain = "extract"
  /\ walkIdx = 1
  /\ wg = 0
  /\ prod = [p \in DOMAIN tree |-> Idle]
  /\ closerPc = "none"
  /\ chanClosed = FALSE
  /\ outputData = InitialOutputData
  /\ received = <<>>
  /\ outFiles = [t \in Types |-> NoFile]
  /\ bundle = NoBundle
  /\ cleaned = FALSE
  /\ run = 1
  /\ prev = NoBundle
  /\ uz = UzIdle
  /\ origin = [t \in Types |-> <<>>]
  /\ openFiles = {}
  /\ stale = {}
  /\ ex = ExIdle

\* log.Fatal / log.Fatalf: os.Exit(1), every goroutine stops where it is and
\* the files the process holds open are closed by its exit.
Fatal ==
  /\ pcMain' = "aborted"
  /\ openFiles' = {}
  /\ UNCHANGED <<tree, walkIdx, wg, prod, closerPc, chanClosed, outputData, received,
                 outFiles, bundle, cleaned, run, prev, uz, origin, stale, ex>>

Running == pcMain # "aborted"

\* main: err := extractPTVData(inputPath)
ExtractOK ==
  /\ pcMain = "extract"
  /\ pcMain' = "walk"
  /\ UNCHANGED <<tree, walkIdx, wg, prod, closerPc, chanClosed, outputData, received,
                 outFiles, bundle, cleaned, run, prev, uz, origin, openFiles, stale, ex>>

ExtractFail ==
  /\ pcMain = "extract"
  /\ Fatal

\* One call of the filepath.Walk callback of walkPTVData.
WalkVisit ==
  /\ pcMain = "walk"
  /\ walkIdx <= Len(tree)
  /\ LET info == tree[walkIdx] IN
       IF ~info.isDir /\ fileIsGTFSFile(info.name)
         THEN /\ wg' = wg + 1
              /\ prod' = [prod EXCEPT ![walkIdx] = [Idle EXCEPT !.pc = "open"]]
         ELSE UNCHANGED <<wg, prod>>
  /\ walkIdx' = walkIdx + 1
  /\ UNCHANGED <<tree, pcMain, closerPc, chanClosed, outputData, received,
                 outFiles, bundle, cleaned, run, prev, uz, origin, openFiles, stale, ex>>

\* The callback is handed err != nil.
WalkAccessError ==
  /\ pcMain = "walk"
  /\ walkIdx <= Len(tree)
  /\ Fatal

\* Walk has returned: start the closer goroutine, return c; main enters its range loop.
WalkReturn ==
  /\ pcMain = "walk"
  /\ walkIdx > Len(tree)
  /\ closerPc' = "wait"
  /\ pcMain' = "range"
  /\ UNCHANGED <<tree, walkIdx, wg, prod, chanClosed, outputData, received,
                 outFiles, bundle, cleaned, run, prev, uz, origin, openFiles, stale, ex>>

\* Variant: the goroutine returns at end of input without wg.Done().
ReadNext_NoDone(p, next) ==
  LET r == csvRead(tree[p].lines, next) IN
    CASE r.err = "EOF" ->
           /\ prod' = [prod EXCEPT ![p] = [pc |-> "done", next |-> next, rec |-> NoRec]]
           /\ UNCHANGED <<wg, pcMain>>
      [] r.err = "nil" ->
           /\ prod' = [prod EXCEPT ![p] =
                         [pc |-> "send", next |-> next + 1,
                          rec |-> [Path |-> p, Type |-> recordTypeOf(tree[p].name),
                                   Contents |-> r.record]]]
           /\ UNCHANGED <<wg, pcMain>>
      [] OTHER ->
           /\ pcMain' = "aborted"
           /\ UNCHANGED <<wg, prod>>

\* record, err := csvFile.Read() at line `next` of the file of producer p, and
\* what follows it: wg.Done() at end of input, log.Fatal on an error, otherwise
\* the record is ready to be sent.
ReadNext(p, next) ==
  LET r == csvRead(tree[p].lines, next) IN
    CASE r.err = "EOF" ->
           /\ wg' = wg - 1
           /\ prod' = [prod EXCEPT ![p] = [pc |-> "done", next |-> next, rec |-> NoRec]]
           /\ pcMain' = pcMain
      [] r.err = "nil" ->
           /\ prod' = [prod EXCEPT ![p] =
                         [pc |-> "send", next |-> next + 1,
                          rec |-> [Path |-> p, Type |-> recordTypeOf(tree[p].name),
                                   Contents |-> r.record]]]
           /\ UNCHANGED <<wg, pcMain>>
      [] OTHER ->
           /\ pcMain' = "aborted"
           /\ UNCHANGED <<wg, prod>>

\* Producer goroutine up to its first send: os.Open, csv.NewReader, the
\* first Read, whose record and error are both discarded, and the first Read
\* of the loop.
ProducerOpen(p) ==
  /\ Running
  /\ prod[p].pc = "open"
  /\ tree[p].readable
  /\ ReadNext(p, 2)
  /\ openFiles' = (IF pcMain' = "aborted" THEN {} ELSE openFiles \cup {p})
  /\ UNCHANGED <<tree, walkIdx, closerPc, chanClosed, outputData, received,
                 outFiles, bundle, cleaned, run, prev, uz, origin, stale, ex>>

\* os.Open fails: log.Fatalf.
ProducerOpenFail(p) ==
  /\ Running
  /\ prod[p].pc = "open"
  /\ ~tree[p].readable
  /\ Fatal

\* Producer goroutine after a send: the next Read of the loop.
ProducerRead(p) ==
  /\ Running
  /\ prod[p].pc = "read"
  /\ ReadNext(p, prod[p].next)
  /\ openFiles' = (IF pcMain' = "aborted" THEN {} ELSE openFiles)
  /\ UNCHANGED <<tree, walkIdx, closerPc, chanClosed, outputData, received,
                 outFiles, bundle, cleaned, run, prev, uz, origin, stale, ex>>

\* Variant: records are taken from the producers while the walk still runs.
Consume_DuringWalk(p) ==
  /\ pcMain \in {"walk", "range"}
  /\ ~chanClosed
  /\ prod[p].pc = "send"
  /\ outputData' = mergeRecord(outputData, prod[p].rec)
  /\ received' = Append(received, <<p, prod[p].next - 1>>)
  /\ origin' = (IF outputData' # outputData
                  THEN [origin EXCEPT ![prod[p].rec.Type] = Append(@, <<p, prod[p].next - 1>>)]
                  ELSE origin)
  /\ prod' = [prod EXCEPT ![p] = [pc |-> "read", next |-> prod[p].next, rec |-> NoRec]]
  /\ UNCHANGED <<tree, pcMain, walkIdx, wg, closerPc, chanClosed, outFiles, bundle, cleaned,
                 run, prev, uz, openFiles, stale, ex>>

\* The unbuffered handoff c <- rec / for record := range c, and the loop body of main.
Consume(p) ==
  /\ pcMain = "range"
  /\ ~chanClosed
  /\ prod[p].pc = "send"
  /\ outputData' = mergeRecord(outputData, prod[p].rec)
  /\ received' = Append(received, <<p, prod[p].next - 1>>)
  /\ origin' = (IF outputData' # outputData
                  THEN [origin EXCEPT ![prod[p].rec.Type] = Append(@, <<p, prod[p].next - 1>>)]
                  ELSE origin)
  /\ prod' = [prod EXCEPT ![p] = [pc |-> "read", next |-> prod[p].next, rec |-> NoRec]]
  /\ UNCHANGED <<tree, pcMain, walkIdx, wg, closerPc, chanClosed, outFiles, bundle, cleaned,
                 run, prev, uz, openFiles, stale, ex>>

\* Variant: the channel is closed by the completion of a producer, so that
\* nothing closes it when no producer was started.
Closer_NeedsProducer ==
  /\ Running
  /\ closerPc = "wait"
  /\ wg = 0
  /\ \E p \in DOMAIN tree : prod[p].pc = "done"
  /\ closerPc' = "closed"
  /\ chanClosed' = TRUE
  /\ UNCHANGED <<tree, pcMain, walkIdx, wg, prod, outputData, received,
                 outFiles, bundle, cleaned, run, prev, uz, origin, openFiles, stale, ex>>

\* Variant: the channel is closed without waiting for the counter.
Closer_NoWait ==
  /\ Running
  /\ closerPc = "wait"
  /\ closerPc' = "closed"
  /\ chanClosed' = TRUE
  /\ UNCHANGED <<tree, pcMain, walkIdx, wg, prod, outputData, received,
                 outFiles, bundle, cleaned, run, prev, uz, origin, openFiles, stale, ex>>

\* go func() { wg.Wait(); close(c) }()
Closer ==
  /\ Running
  /\ closerPc = "wait"
  /\ wg = 0
  /\ closerPc' = "closed"
  /\ chanClosed' = TRUE
  /\ UNCHANGED <<tree, pcMain, walkIdx, wg, prod, outputData, received,
                 outFiles, bundle, cleaned, run, prev, uz, origin, openFiles, stale, ex>>

\* The range loop ends on the closed channel.
RangeEnd ==
  /\ pcMain = "range"
  /\ chanClosed
  /\ pcMain' = "write"
  /\ UNCHANGED <<tree, walkIdx, wg, prod, closerPc, chanClosed, outputData, received,
                 outFiles, bundle, cleaned, run, prev, uz, origin, openFiles, stale, ex>>

\* writeOutput with every os.Create and Write succeeding, then archiver.Archive,
\* whose error is dropped: either the archive is written, or the call fails,
\* what was at consolidatedOutputFiles + ".zip" stays, and main goes on.
WriteOutput ==
  /\ pcMain = "write"
  /\ outFiles' = outputData
  /\ bundle' \in {outputData, bundle}
  /\ pcMain' = "cleanup"
  /\ UNCHANGED <<tree, walkIdx, wg, prod, closerPc, chanClosed, outputData, received, cleaned, run, prev, uz, origin, openFiles, stale, ex>>

\* writeCSV fails on the first file it is called for (log.Fatalf): os.Create
\* fails, as it does when os.MkdirAll, whose error is dropped, has not made the
\* directory, or writer.Write fails.
WriteFail ==
  /\ pcMain = "write"
  /\ Fatal

\* cleanup(), the errors of os.RemoveAll only logged; main then returns and the
\* process exits.
Cleanup ==
  /\ pcMain = "cleanup"
  /\ cleaned' = TRUE
  /\ outFiles' = [t \in Types |-> NoFile]
  /\ pcMain' = "done"
  /\ openFiles' = {}
  /\ UNCHANGED <<tree, walkIdx, wg, prod, closerPc, chanClosed, outputData, received, bundle,
                 run, prev, uz, origin, stale, ex>>

Next ==
  \/ ExtractOK
  \/ ExtractFail
  \/ WalkVisit
  \/ WalkAccessError
  \/ WalkReturn
  \/ \E p \in DOMAIN tree : ProducerOpen(p)
  \/ \E p \in DOMAIN tree : ProducerOpenFail(p)
  \/ \E p \in DOMAIN tree : ProducerRead(p)
  \/ \E p \in DOMAIN tree : Consume(p)
  \/ Closer
  \/ RangeEnd
  \/ WriteOutput
  \/ WriteFail
  \/ Cleanup

Spec == Init /\ [][Next]_vars

\* main is started once more on the same input archive after a run that ended
\* with cleanup: a new process, so every variable of the program starts afresh;
\* the archive written by the earlier run is still on disk.
Rerun ==
  /\ pcMain = "done"
  /\ run = 1
  /\ run' = 2
  /\ prev' = outputData
  /\ pcMain' = "extract"
  /\ walkIdx' = 1
  /\ wg' = 0
  /\ prod' = [p \in DOMAIN tree |-> Idle]
  /\ closerPc' = "none"
  /\ chanClosed' = FALSE
  /\ outputData' = InitialOutputData
  /\ received' = <<>>
  /\ outFiles' = [t \in Types |-> NoFile]
  /\ cleaned' = FALSE
  /\ origin' = [t \in Types |-> <<>>]
  /\ UNCHANGED <<tree, bundle, uz, openFiles, stale, ex>>

RerunNext ==
  \/ Next
  \/ Rerun

RerunSpec == Init /\ [][RerunNext]_vars

\* The program on a tree with a file whose first line is not the header of its type.
BadHeaderInit ==
  /\ tree \in BadHeaderTrees
  /\ pcMain = "extract"
  /\ walkIdx = 1
  /\ wg = 0
  /\ prod = [p \in DOMAIN tree |-> Idle]
  /\ closerPc = "none"
  /\ chanClosed = FALSE
  /\ outputData = InitialOutputData
  /\ received = <<>>
  /\ outFiles = [t \in Types |-> NoFile]
  /\ bundle = NoBundle
  /\ cleaned = FALSE
  /\ run = 1
  /\ prev = NoBundle
  /\ uz = UzIdle
  /\ origin = [t \in Types |-> <<>>]
  /\ openFiles = {}
  /\ stale = {}
  /\ ex = ExIdle

BadHeaderSpec == BadHeaderInit /\ [][Next]_vars

\* Entries an earlier run may leave under looseInputFiles for the next run.
MaxStale == 1

\* The archives of the later run: an empty one, or one stops file with one row.
LaterArchives == {<<>>} \cup {<<GTFSFile("stops", <<r>>)>> : r \in RowChoices("stops")}

\* main is started on another archive after a run has ended.  Nothing in main
\* removes looseInputFiles before extractPTVData unpacks into it: after a
\* failed run, which did not reach cleanup, the entries of that run are still
\* there and the walk visits them with the entries of the new archive.  The
\* archive written by an earlier run is still on disk too.
RunOnOtherArchive ==
  /\ pcMain \in {"done", "aborted"}
  /\ run = 1
  /\ Len(tree) <= MaxStale
  /\ LET left == IF cleaned THEN <<>> ELSE tree IN
       \E a \in LaterArchives :
         /\ tree' = left \o a
         /\ stale' = DOMAIN left
         /\ prod' = [p \in DOMAIN (left \o a) |-> Idle]
  /\ run' = 2
  /\ pcMain' = "extract"
  /\ walkIdx' = 1
  /\ wg' = 0
  /\ closerPc' = "none"
  /\ chanClosed' = FALSE
  /\ outputData' = InitialOutputData
  /\ received' = <<>>
  /\ outFiles' = (IF cleaned THEN [t \in Types |-> NoFile] ELSE outFiles)
  /\ cleaned' = FALSE
  /\ origin' = [t \in Types |-> <<>>]
  /\ UNCHANGED <<bundle, prev, uz, openFiles, ex>>

OtherNext ==
  \/ Next
  \/ RunOnOtherArchive

OtherSpec == Init /\ [][OtherNext]_vars

----------------------------------------------------------------------------
\* Unzip(src, dest)

UnzipInit ==
  /\ tree = <<>>
  /\ pcMain = "extract"
  /\ walkIdx = 1
  /\ wg = 0
  /\ prod = <<>>
  /\ closerPc = "none"
  /\ chanClosed = FALSE
  /\ outputData = InitialOutputData
  /\ received = <<>>
  /\ outFiles = [t \in Types |-> NoFile]
  /\ bundle = NoBundle
  /\ cleaned = FALSE
  /\ run = 1
  /\ prev = NoBundle
  /\ origin = [t \in Types |-> <<>>]
  /\ openFiles = {}
  /\ stale = {}
  /\ ex = ExIdle
  /\ \E d \in Dests, a \in Archives(MaxEntries) :
       uz = [pc |-> "open", dest |-> d, archive |-> a, i |-> 0, filenames |-> <<>>,
             made |-> [k \in DOMAIN a |-> {}], err |-> "nil"]

pipeVars == <<tree, pcMain, walkIdx, wg, prod, closerPc, chanClosed, outputData, received,
              outFiles, bundle, cleaned, run, prev, origin, openFiles, stale>>

\* return filenames, err
UzReturn(e) == [uz EXCEPT !.pc = "ret", !.err = e]

\* r, err := zip.OpenReader(src)
UnzipOpenReader ==
  /\ uz.pc = "open"
  /\ \/ uz' = [uz EXCEPT !.pc = "loop", !.i = 1]
     \/ uz' = UzReturn("zip: cannot open archive")
  /\ UNCHANGED <<pipeVars, ex>>

\* One iteration of for _, f := range r.File, for a directory entry or a file entry.
UnzipEntry ==
  /\ uz.pc = "loop"
  /\ uz.i <= Len(uz.archive)
  /\ LET fpath == Join(uz.dest, uz.archive[uz.i])
         next == [uz EXCEPT !.i = uz.i + 1, !.filenames = Append(uz.filenames, fpath)]
         listed == [uz EXCEPT !.filenames = Append(uz.filenames, fpath)]
     IN \/ uz' = UzReturn("zip: cannot open entry")
        \/ /\ IllegalFilePath(fpath, uz.dest)
           /\ uz' = UzReturn("illegal file path")
        \/ /\ ~IllegalFilePath(fpath, uz.dest)
           /\ \/ \* a directory: os.MkdirAll(fpath), its error dropped
                 \E done \in SUBSET MkdirAll(fpath, uz.dest) :
                   uz' = [next EXCEPT !.made[uz.i] = done]
              \/ \* a file: os.MkdirAll(filepath.Dir(fpath)) fails
                 \E done \in SUBSET MkdirAll(Dir(fpath), uz.dest) :
                   uz' = [listed EXCEPT !.pc = "ret", !.err = "mkdir", !.made[uz.i] = done]
              \/ \* os.OpenFile fails
                 uz' = [listed EXCEPT !.pc = "ret", !.err = "open file",
                                      !.made[uz.i] = MkdirAll(Dir(fpath), uz.dest)]
              \/ \* io.Copy fails or succeeds, the file exists
                 \E ok \in BOOLEAN :
                   uz' = [(IF ok THEN next ELSE [listed EXCEPT !.pc = "ret", !.err = "copy"])
                            EXCEPT !.made[uz.i] = MkdirAll(Dir(fpath), uz.dest) \cup {fpath}]
  /\ UNCHANGED <<pipeVars, ex>>

\* return filenames, nil
UnzipDone ==
  /\ uz.pc = "loop"
  /\ uz.i > Len(uz.archive)
  /\ uz' = UzReturn("nil")
  /\ UNCHANGED <<pipeVars, ex>>

UnzipNext ==
  \/ UnzipOpenReader
  \/ UnzipEntry
  \/ UnzipDone

UnzipSpec == UnzipInit /\ [][UnzipNext]_vars

----------------------------------------------------------------------------
\* extractPTVData(path)

ExtractInit ==
  /\ tree = <<>>
  /\ pcMain = "extract"
  /\ walkIdx = 1
  /\ wg = 0
  /\ prod = <<>>
  /\ closerPc = "none"
  /\ chanClosed = FALSE
  /\ outputData = InitialOutputData
  /\ received = <<>>
  /\ outFiles = [t \in Types |-> NoFile]
  /\ bundle = NoBundle
  /\ cleaned = FALSE
  /\ run = 1
  /\ prev = NoBundle
  /\ origin = [t \in Types |-> <<>>]
  /\ openFiles = {}
  /\ stale = {}
  /\ uz = UzIdle
  /\ \E a \in RootArchives : ex = [ExIdle EXCEPT !.pc = "unarchive", !.archive = a]

\* err := archiver.Unarchive(path, looseInputFiles); return err on failure
ExtractUnarchive ==
  /\ ex.pc = "unarchive"
  /\ \/ ex' = [ex EXCEPT !.pc = "walk", !.fs = Unarchived(looseInputFiles, ex.archive),
                          !.todo = <<looseInputFiles>>]
     \/ ex' = [ex EXCEPT !.pc = "ret", !.err = "unarchive"]
  /\ UNCHANGED <<pipeVars, uz>>

\* One step of filepath.Walk: the names of a directory are read, the callback
\* runs for the path, then the walk goes on with the names it has read.
ExtractWalkFn ==
  /\ ex.pc = "walk"
  /\ ex.todo # <<>>
  /\ LET path == Head(ex.todo)
         info == CHOOSE m \in ex.fs : m.path = path
         names == IF info.kind = "dir" THEN ReadDirNames(ex.fs, path) ELSE <<>>
         rest == [n \in DOMAIN names |-> Append(path, names[n])] \o Tail(ex.todo)
         innerOutputPath == ReplaceDotZip(path)
         new == Unarchived(innerOutputPath, info.inner)
     IN IF BaseName(path) = innerZipFileName
          THEN \/ /\ info.kind = "zip"
                  /\ CanUnarchive(ex.fs, new)
                  /\ ex' = [ex EXCEPT !.fs = ex.fs \cup new, !.todo = rest,
                                       !.calls = Append(ex.calls, <<path, innerOutputPath>>)]
               \/ \* Unarchive returns an error: log.Fatalf
                  ex' = [ex EXCEPT !.pc = "fatal", !.err = "Unable to unzip"]
          ELSE ex' = [ex EXCEPT !.todo = rest]
  /\ UNCHANGED <<pipeVars, uz>>

\* The callback is handed err != nil: log.Fatalf
ExtractWalkError ==
  /\ ex.pc = "walk"
  /\ ex.todo # <<>>
  /\ ex' = [ex EXCEPT !.pc = "fatal", !.err = "Failure to access path"]
  /\ UNCHANGED <<pipeVars, uz>>

\* return err, with the nil the callback returned
ExtractReturn ==
  /\ ex.pc = "walk"
  /\ ex.todo = <<>>
  /\ ex' = [ex EXCEPT !.pc = "ret", !.err = "nil"]
  /\ UNCHANGED <<pipeVars, uz>>

ExtractNext ==
  \/ ExtractUnarchive
  \/ ExtractWalkFn
  \/ ExtractWalkError
  \/ ExtractReturn

ExtractSpec == ExtractInit /\ [][ExtractNext]_vars

\* Fairness: every goroutine that can take a step is eventually scheduled, and
\* a sender blocked on the channel is eventually served by the receiving loop
\* (blocked senders queue in arrival order).  The failures of the environment
\* (ExtractFail, WalkAccessError, WriteFail) are never forced.
Fairness ==
  /\ WF_vars(ExtractOK)
  /\ WF_vars(WalkVisit)
  /\ WF_vars(WalkReturn)
  /\ \A p \in 1..MaxFiles :
       WF_vars(p \in DOMAIN tree /\ (ProducerOpen(p) \/ ProducerOpenFail(p)))
  /\ \A p \in 1..MaxFiles : WF_vars(p \in DOMAIN tree /\ ProducerRead(p))
  /\ \A p \in 1..MaxFiles : WF_vars(p \in DOMAIN tree /\ Consume(p))
  /\ WF_vars(Closer)
  /\ WF_vars(RangeEnd)
  /\ WF_vars(WriteOutput)
  /\ WF_vars(Cleanup)

FairSpec == Init /\ [][Next]_vars /\ Fairness

----------------------------------------------------------------------------
\* Vocabulary of the properties

\* The rows of a table after its header row.
DataRowsOf(table) == SubSeq(table, 2, Len(table))

KeysOf(table) == {table[i][1] : i \in 2..Len(table)}

\* The files the walk dispatches a producer for.
Matched == {p \in DOMAIN tree : ~tree[p].isDir /\ fileIsGTFSFile(tree[p].name)}

TypeOfFile(p) == recordTypeOf(tree[p].name)

\* <<file, line>> of every data line of the matched files.
SourceRows == {<<p, l>> : p \in Matched, l \in 2..MaxRows + 1} \cap
              {x \in (DOMAIN tree) \X (2..MaxRows + 1) : x[2] <= Len(tree[x[1]].lines)}

RowAt(x) == tree[x[1]].lines[x[2]]

\* The range loop of main has ended.
Merged == pcMain \in {"write", "cleanup", "done"}

----------------------------------------------------------------------------
\* C1: in every state, for every entity type, the first fields of the rows of
\* the table after the header row are pairwise distinct.
C1_KeysPairwiseDistinct ==
  \A t \in Types :
    \A i, j \in 2..Len(outputData[t]) :
      i # j => outputData[t][i][1] # outputData[t][j][1]

\* C1 witness: two rows with the same key and different contents have been
\* received for one type and its table holds exactly one of them.
C1_Witness ==
  /\ Merged
  /\ \E i, j \in DOMAIN received :
       /\ i < j
       /\ TypeOfFile(received[i][1]) = "stops" /\ TypeOfFile(received[j][1]) = "stops"
       /\ RowAt(received[i])[1] = "S1" /\ RowAt(received[j])[1] = "S1"
       /\ RowAt(received[i]) # RowAt(received[j])
  /\ Len(outputData["stops"]) = 2

\* C5: in every state the first row of every type's table is that type's
\* fixed header, and so is the first row of every output file written.
C5_HeaderFirst ==
  /\ \A t \in Types : Len(outputData[t]) >= 1 /\ outputData[t][1] = Header[t]
  /\ \A t \in Types : outFiles[t] # NoFile => outFiles[t][1] = Header[t]
  /\ bundle # NoBundle => \A t \in Types : bundle[t][1] = Header[t]

\* C5 witness: the output has been written and a table holds two data rows
\* that arrived from two different files.
C5_Witness ==
  /\ pcMain = "cleanup"
  /\ Len(outFiles["stop_times"]) = 3
  /\ Len(received) = 2
  /\ received[1][1] # received[2][1]

\* The records received so far that carry type t and key k, in arrival order.
FirstReceived(t, k) ==
  CHOOSE i \in DOMAIN received :
    /\ TypeOfFile(received[i][1]) = t /\ RowAt(received[i])[1] = k
    /\ \A j \in 1..(i - 1) :
         ~(TypeOfFile(received[j][1]) = t /\ RowAt(received[j])[1] = k)

\* The rows with key k of a table, header excluded.
RowsWithKey(table, k) == {table[i] : i \in {n \in 2..Len(table) : table[n][1] = k}}

\* A table only grows at its end: no row is removed or altered.
AppendOnly ==
  \A t \in Types :
    /\ Len(outputData'[t]) >= Len(outputData[t])
    /\ SubSeq(outputData'[t], 1, Len(outputData[t])) = outputData[t]

\* C2: for any two received rows of one type with the same first field, the
\* one received first is in the table, unmodified, and is the only row with
\* that key; and no row of a table is ever removed or altered.
C2_FirstWriteWins ==
  /\ [](\A i, j \in DOMAIN received :
          LET t == TypeOfFile(received[i][1])
              k == RowAt(received[i])[1]
          IN (/\ i < j
              /\ TypeOfFile(received[j][1]) = t
              /\ RowAt(received[j])[1] = k
              /\ i = FirstReceived(t, k))
             => RowsWithKey(outputData[t], k) = {RowAt(received[i])})
  /\ [][AppendOnly]_vars

\* C3: every record sent is received exactly once; the channel is closed only
\* after the walk has returned and every dispatched producer has sent all its
\* rows; the counter is positive while a dispatched producer is not done; no
\* producer is left sending on a closed channel; the range loop ends only
\* when every data row of every matched file has been received.
C3_ExactlyOnceThenClose ==
  /\ \A i, j \in DOMAIN received : i # j => received[i] # received[j]
  /\ \A i \in DOMAIN received : received[i] \in SourceRows
  /\ wg = Cardinality({p \in DOMAIN tree : prod[p].pc \in {"open", "read", "send"}})
  /\ closerPc # "none" => walkIdx > Len(tree)
  /\ chanClosed => \A p \in Matched : prod[p].pc = "done"
  /\ Merged => Range(received) = SourceRows

\* C3 witness: the loop has ended after receiving a record from each of two
\* producers.
C3_Witness ==
  /\ pcMain = "write"
  /\ chanClosed
  /\ Len(received) = 2
  /\ received[1][1] # received[2][1]

\* The (trip, stop, sequence) combination of a stop_times row.
TripStopSeq(row) == <<row[1], row[4], row[5]>>

\* C7: when exactly one stop_times file is merged and no two of its rows share
\* their (trip, stop, sequence) combination, the stop_times table is the
\* header followed by all rows of the file in the file's order.
C7_StopTimesAllKept ==
  \A p \in Matched :
    (/\ Merged
     /\ TypeOfFile(p) = "stop_times"
     /\ \A q \in Matched : TypeOfFile(q) = "stop_times" => q = p
     /\ \A a, b \in 2..Len(tree[p].lines) :
          a # b => TripStopSeq(tree[p].lines[a]) # TripStopSeq(tree[p].lines[b]))
    => outputData["stop_times"] = <<Header["stop_times"]>> \o DataRowsOf(tree[p].lines)

\* C8: after the merge the set of primary keys of each table (header excluded)
\* equals the set of first-field values of the data rows of all source files
\* of that type.
C8_KeySetIsSourceKeySet ==
  Merged =>
    \A t \in Types :
      KeysOf(outputData[t]) = {RowAt(x)[1] : x \in {y \in SourceRows : TypeOfFile(y[1]) = t}}

\* The run has ended the way a run without failure ends.
Completed ==
  /\ pcMain = "done"
  /\ \A p \in Matched : prod[p].pc = "done"
  /\ chanClosed
  /\ cleaned

\* C4: under fair scheduling a run in which no step fails terminates: every
\* producer finishes, the channel is closed, the range loop ends, the writer
\* and the cleanup run.  (A failing step ends the run in "aborted".)
C4_Terminates == <>(pcMain = "aborted" \/ Completed)

\* C4 witness: a completed run in which two producers, both started during the
\* walk, have each been served.
C4_Witness ==
  /\ Completed
  /\ bundle = outputData
  /\ Len(received) = 2
  /\ received[1][1] # received[2][1]

\* No entry of the tree is a file with the name of an entity type.
NoMatchingFile == Matched = {}

\* C10: when no file of the tree matches an entity type, the run completes
\* unless the environment fails it, and every table written, and bundled when
\* the archive is produced, is exactly its header row.
C10_NoFilesHeaderOnly ==
  /\ [](NoMatchingFile /\ pcMain \in {"cleanup", "done"} =>
         bundle \in {NoBundle, InitialOutputData})
  /\ [](NoMatchingFile /\ pcMain = "cleanup" => outFiles = InitialOutputData)
  /\ (NoMatchingFile ~> (pcMain = "aborted" \/ Completed))

\* C10 witness: a completed run over a tree that holds entries, none of them
\* matching.
C10_Witness ==
  /\ NoMatchingFile
  /\ Len(tree) = 2
  /\ Completed
  /\ bundle = InitialOutputData

\* The data rows of the matched files of type t.
SourceRowsOfType(t) == {RowAt(x) : x \in {y \in SourceRows : TypeOfFile(y[1]) = t}}

\* C9 as stated: the second run on the same input ends with the same set of
\* rows in every table as the first run.
C9_RerunSameRows ==
  (run = 2 /\ Merged) => \A t \in Types : Range(outputData[t]) = Range(prev[t])

\* C9 amended: the second run ends, for every type, with the same key set and
\* the same number of rows as the first; every retained row is a row of a
\* source file of that type; and a row of the second run that the first run
\* did not retain has a key under which the source files hold rows of
\* different contents.
C9_RerunSameKeys ==
  (run = 2 /\ Merged) =>
    \A t \in Types :
      /\ KeysOf(outputData[t]) = KeysOf(prev[t])
      /\ Len(outputData[t]) = Len(prev[t])
      /\ Range(DataRowsOf(outputData[t])) \subseteq SourceRowsOfType(t)
      /\ \A r \in Range(DataRowsOf(outputData[t])) \ Range(prev[t]) :
           \E a, b \in SourceRowsOfType(t) : a[1] = r[1] /\ b[1] = r[1] /\ a # b

\* C9 witness: two runs on the same two files have ended with different rows
\* under the same key.
C9_Witness ==
  /\ run = 2
  /\ Merged
  /\ KeysOf(outputData["stops"]) = {"S1"}
  /\ outputData["stops"] # prev["stops"]

\* The elements of dest, cleaned; none for ".".
DestElements(dest) == IF Clean(dest) = Dot THEN <<>> ELSE Elements(Clean(dest))

\* A cleaned path lies in dest: dest itself or a path below it, element by element.
InDest(path, dest) ==
  LET d == DestElements(dest)
      e == IF path = Dot THEN <<>> ELSE Elements(path)
  IN /\ Len(e) >= Len(d)
     /\ SubSeq(e, 1, Len(d)) = d
     /\ (path # <<>> /\ path[1] = Sep) = (Clean(dest)[1] = Sep)
     /\ \A n \in DOMAIN e : e[n] # DotDot

\* The name of entry k, joined to dest, resolves outside dest.
Escapes(k) == ~InDest(Join(uz.dest, uz.archive[k]), uz.dest)

\* The loop of Unzip has taken up entry k.
TakenUp(k) == uz.i > k \/ (uz.i = k /\ uz.pc = "ret")

MalformedLine(p, l) == csvRead(tree[p].lines, l).err \notin {"nil", "EOF"}

\* Matched file p cannot be opened or holds a malformed line.
FileFails(p) ==
  \/ ~tree[p].readable
  \/ \E l \in DOMAIN tree[p].lines : MalformedLine(p, l)

\* C11: when a matched file cannot be opened or holds a malformed row, the
\* run never reaches the writer (nothing is written, nothing is removed), and
\* no row is received from a file past a malformed row of that file.
C11_FailFast ==
  /\ (\E p \in Matched : FileFails(p)) =>
       /\ pcMain \notin {"write", "cleanup", "done"}
       /\ outFiles = [t \in Types |-> NoFile]
       /\ bundle = NoBundle
       /\ ~cleaned
  /\ \A i \in DOMAIN received :
       \A l \in 1..(received[i][2] - 1) : ~MalformedLine(received[i][1], l)

\* extractPTVData has returned nil.
Extracted == ex.pc = "ret" /\ ex.err = "nil"

\* The archives with the marker name in the unpacked tree.
MarkerArchives == {m \in ex.fs : m.kind = "zip" /\ BaseName(m.path) = innerZipFileName}

\* C12: after extractPTVData has returned successfully, every marker-named
\* archive in the unpacked tree has been unpacked, at any depth of nesting.
C12_EveryMarkerUnpacked ==
  Extracted => \A m \in MarkerArchives : \E c \in DOMAIN ex.calls : ex.calls[c][1] = m.path

\* A name without its ".zip" suffix.
TrimZipSuffix(name) ==
  IF Len(name) >= 2 /\ name[Len(name)] = "zip" THEN SubSeq(name, 1, Len(name) - 1) ELSE name

\* The sibling of path p named as p's base name without ".zip".
SiblingOf(p) == Append(SubSeq(p, 1, Len(p) - 1), TrimZipSuffix(BaseName(p)))

\* C17: every inner archive found at path P is unpacked into dir(P)/google_transit.
C17_UnpackedIntoSibling ==
  \A c \in DOMAIN ex.calls : ex.calls[c][2] = SiblingOf(ex.calls[c][1])

\* C13: a run whose writer fails ends as failed without cleanup, so cleanup has
\* run only when every table was written and the archive holds them.
C13_CleanupOnlyAfterBundle ==
  /\ pcMain = "aborted" => ~cleaned
  /\ cleaned => bundle = outputData

\* The data rows of the matched files that came out of the archive of this run.
RowsOfThisRun(t) ==
  {RowAt(x) : x \in {y \in SourceRows : y[1] \notin stale /\ TypeOfFile(y[1]) = t}}

\* C14: in a run that follows another run, the tables hold only rows taken
\* from the archive of this run, and the archive on disk at the end, if any,
\* is the one this run wrote.
C14_NoCarryOver ==
  (run = 2 /\ Merged) =>
    /\ \A t \in Types : Range(DataRowsOf(outputData[t])) \subseteq RowsOfThisRun(t)
    /\ pcMain \in {"cleanup", "done"} => bundle \in {NoBundle, outputData}

\* C15: the duplicate check looks at the data rows only, so every record
\* received, a record whose key is the header's first field name included,
\* has its key among the data rows of its type's table from then on: it was
\* appended unless an earlier data row had that key.
C15_HeaderRowNotCompared ==
  \A i \in DOMAIN received :
    RowAt(received[i])[1] \in KeysOf(outputData[TypeOfFile(received[i][1])])

NamedAfterType == {p \in DOMAIN tree : ~tree[p].isDir /\ \E t \in Types : tree[p].name = <<t, "txt">>}

\* C18: the walk dispatches one producer for each file named <type>.txt it
\* has visited and none for any other entry; every record carries a type of
\* the fixed set; the table map holds exactly the fixed types, each table
\* starting with its header.
C18_DispatchAndTypes ==
  /\ \A p \in DOMAIN tree : prod[p].pc # "none" <=> (p < walkIdx /\ p \in NamedAfterType)
  /\ wg + Cardinality({p \in DOMAIN tree : prod[p].pc = "done"})
       = Cardinality({p \in NamedAfterType : p < walkIdx})
  /\ \A p \in DOMAIN tree : prod[p].pc = "send" => prod[p].rec.Type \in Types
  /\ DOMAIN outputData = Types
  /\ \A t \in Types : outputData[t] # <<>> /\ Head(outputData[t]) = Header[t]

\* C18 witness: the walk has passed a directory named like a GTFS file, which
\* got no producer, and a file whose producer has had a record merged.
C18_Witness ==
  /\ pcMain = "write"
  /\ \E p \in DOMAIN tree : tree[p].isDir /\ fileIsGTFSFile(tree[p].name) /\ prod[p].pc = "none"
  /\ \E q \in DOMAIN tree : prod[q].pc = "done" /\ <<q, 2>> \in Range(origin[TypeOfFile(q)])

\* The records received from producer p so far.
ReceivedFrom(p) == Cardinality({i \in DOMAIN received : received[i][1] = p})

\* The data rows producer p has read from its file so far.
RowsRead(p) == IF prod[p].pc \in {"none", "open"} THEN 0 ELSE prod[p].next - 2

\* C19: a producer has read one row more than the consumer has received from
\* it exactly while it is blocked on the send of that row, and otherwise none
\* more; a record exists outside the tables only in the hands of a blocked
\* sender; nothing is received before the walk has returned.
C19_Backpressure ==
  /\ \A p \in DOMAIN tree :
       /\ RowsRead(p) = ReceivedFrom(p) + (IF prod[p].pc = "send" THEN 1 ELSE 0)
       /\ prod[p].rec # NoRec <=> prod[p].pc = "send"
  /\ received # <<>> => (walkIdx > Len(tree) /\ closerPc # "none")
  /\ pcMain \in {"extract", "walk"} => received = <<>>

\* C19 witness: a producer whose first row was received is blocked on the send
\* of its second row.
C19_Witness ==
  /\ pcMain = "range"
  /\ Len(received) = 1
  /\ \E p \in DOMAIN tree : received[1] = <<p, 2>> /\ prod[p].pc = "send" /\ prod[p].next = 4

\* The producers that have been started and have not ended.
RunningProducers == {p \in DOMAIN tree : prod[p].pc \in {"open", "read", "send"}}

\* C20: the file of a producer that has signalled completion is closed, and
\* no more source files are open than producers are running.
C20_FilesClosed ==
  /\ \A p \in DOMAIN tree : prod[p].pc = "done" => p \notin openFiles
  /\ Cardinality(openFiles) <= Cardinality(RunningProducers)

\* C21: every row of a final table has as many fields as the fixed header of
\* the table, whatever the first line of the source files.
C21_RowsHaveHeaderWidth ==
  pcMain \in {"write", "cleanup", "done"} =>
    \A t \in Types : \A i \in DOMAIN outputData[t] :
      Len(outputData[t][i]) = Len(Header[t])

====
